---- MODULE Spec2Model ----
(***************************************************************************)
(* State-machine model of the map-plotting helpers of sensingcluespy       *)
(* (src/sensingcluespy/src/visualization.py): plot_layer,                  *)
(* plot_observations and plot_tracks.                                      *)
(*                                                                         *)
(* A folium map is modelled by the ordered list of its children; a Python  *)
(* dict by the ordered list of its (key, value) pairs; Python's None by    *)
(* the string "None" where the other values are strings and by the empty   *)
(* tuple where they are tuples.  The only state outside the arguments that *)
(* the functions read is matplotlib's colour cycle                         *)
(* plt.rcParams['axes.prop_cycle'], modelled by the variable rcColors.     *)
(***************************************************************************)
EXTENDS Integers, Sequences, FiniteSets, TLC

\* ------------------------------------------------------------------ bounds

\* Largest number of rows of an observation collection.
MaxObsRows == 3

\* Largest number of features of a layer table.
MaxLayerRows == 3

\* Largest number of rows of a track series.
MaxTrackRows == 3

\* ------------------------------------------------------- values and inputs

None == "None"

\* The five observationType values the code names, and one it does not.
KnownTypes == {"community_work", "community", "animal", "hwc", "poi"}

\* The observation rows the inputs are built from: geometry is a point
\* (x = longitude, y = latitude).
ObsRowSet ==
    { [observationType |-> "animal", conceptLabel |-> "Giraffe",
       geometry |-> [x |-> 0, y |-> 0]],
      [observationType |-> "hwc", conceptLabel |-> "Conflict",
       geometry |-> [x |-> 1, y |-> 1]],
      [observationType |-> "unknown_type", conceptLabel |-> "Mystery",
       geometry |-> [x |-> 2, y |-> 2]],
      [observationType |-> "community", conceptLabel |-> "Meeting",
       geometry |-> [x |-> 3, y |-> 4]],
      [observationType |-> "community_work", conceptLabel |-> "Patrol",
       geometry |-> [x |-> 5, y |-> 6]],
      [observationType |-> "poi", conceptLabel |-> "Waterhole",
       geometry |-> [x |-> 7, y |-> 8]] }

SeqsUpTo(S, n) == UNION { [1..k -> S] : k \in 0..n }

ObservationInputs == SeqsUpTo(ObsRowSet, MaxObsRows)

\* show_heatmap: the two modes the code tests for, None, and the mode the
\* docstring names but the code does not test for.
HeatmapModes == {"all", "hwc_animal", None, "hwc_only"}

\* padding: None (the empty tuple) or a pair of pixels.
Paddings == {<<>>, <<10, 10>>}

\* The colour cycles rcParams may hold: matplotlib's default one, and a short
\* one that a style sheet or the caller has set instead.  Every cycle holds
\* at least two colours, all different.
DefaultColors ==
    << "#1f77b4", "#ff7f0e", "#2ca02c", "#d62728", "#9467bd",
       "#8c564b", "#e377c2", "#7f7f7f", "#bcbd22", "#17becf" >>

ShortColors == << "b", "g", "r" >>

Palettes == {DefaultColors, ShortColors}

\* The geometry of the feature at position p of a layer table: a triangle of
\* (x = longitude, y = latitude) vertices, different at every position.
LayerGeometry(p) ==
    << [x |-> 10 * p, y |-> 0], [x |-> 10 * p + 1, y |-> 1], [x |-> 10 * p, y |-> 2] >>

LayerNames == {"A", "B"}

\* Index labels: some lie outside the smaller tables.
LayerLabels == 0..3

\* Layer tables: row p has an index label, a geometry and a display name.
LayerInputs ==
    UNION { { [p \in 1..n |-> [idx |-> ix[p], geometry |-> LayerGeometry(p),
                               NAME |-> nm[p]]] :
              ix \in [1..n -> LayerLabels], nm \in [1..n -> LayerNames] } :
            n \in 0..MaxLayerRows }

TrackIds == {"T1", "T2", "T3"}

\* The geometry of a track row: a multi-point of one or of two points.
TrackGeometries ==
    { << [x |-> 0, y |-> 1] >>, << [x |-> 2, y |-> 3], [x |-> 4, y |-> 5] >> }

\* Track series: each row is indexed by its track id; an id may index
\* several rows.
TrackInputs ==
    SeqsUpTo([idx : TrackIds, geometry : TrackGeometries], MaxTrackRows)

\* ------------------------------------------------------------- dict helpers

DictKeys(d) == { d[k].key : k \in 1..Len(d) }

DictHas(d, key) == key \in DictKeys(d)

DictPos(d, key) == CHOOSE k \in 1..Len(d) : d[k].key = key

DictGet(d, key) == d[DictPos(d, key)].value

\* d[key] = value: a new key is appended, an existing key keeps its place.
DictSet(d, key, value) ==
    IF DictHas(d, key)
    THEN [d EXCEPT ![DictPos(d, key)] = [key |-> key, value |-> value]]
    ELSE Append(d, [key |-> key, value |-> value])

DictValues(d) == [k \in 1..Len(d) |-> d[k].value]

\* ------------------------------------------------------------ folium objects

FeatureGroup(name) == [kind |-> "FeatureGroup", name |-> name, children |-> <<>>]

AddTo(child, parent) == [parent EXCEPT !.children = Append(@, child)]

NewMap == [tiles |-> "cartodbpositron", children |-> <<>>]

Icon(fmt) == [icon |-> fmt.icon, color |-> fmt.color, prefix |-> "fa"]

\* Faulty variant of Marker: the location is taken as it is written for a
\* point, (x, y), where the map wants (latitude, longitude).
MarkerLonLat(location, popup, icon) ==
    [kind |-> "Marker", location |-> <<location[2], location[1]>>,
     popup |-> popup, icon |-> icon]

Marker(location, popup, icon) ==
    [kind |-> "Marker", location |-> location, popup |-> popup, icon |-> icon]

GeoJson(data, color, name) ==
    [kind |-> "GeoJson", data |-> data, color |-> color, name |-> name]

PolyLine(locations, color, weight, opacity) ==
    [kind |-> "PolyLine", locations |-> locations, color |-> color,
     weight |-> weight, opacity |-> opacity]

HeatMap(data, name, gradient) ==
    [kind |-> "HeatMap", name |-> name, data |-> data, gradient |-> gradient]

LatLngPopup == [kind |-> "LatLngPopup"]

LayerControl(collapsed) == [kind |-> "LayerControl", collapsed |-> collapsed]

FitBounds(bounds, pad) == [kind |-> "FitBounds", bounds |-> bounds, padding |-> pad]

\* The children of a kind, in the order they were added.
OfKind(map, kind) == SelectSeq(map.children, LAMBDA el : el.kind = kind)

\* The (lat, lon) points an element covers.
RECURSIVE PointsOfSeq(_)
PointsOf(el) ==
    CASE el.kind = "Marker" -> {el.location}
      [] el.kind = "HeatMap" -> { el.data[k] : k \in 1..Len(el.data) }
      [] el.kind = "PolyLine" -> { el.locations[k] : k \in 1..Len(el.locations) }
      [] el.kind = "GeoJson" -> { <<el.data[k].y, el.data[k].x>> : k \in 1..Len(el.data) }
      [] el.kind = "FeatureGroup" -> PointsOfSeq(el.children)
      [] OTHER -> {}

PointsOfSeq(s) ==
    IF s = <<>> THEN {} ELSE PointsOf(Head(s)) \cup PointsOfSeq(Tail(s))

Min(S) == CHOOSE m \in S : \A n \in S : m <= n

Max(S) == CHOOSE m \in S : \A n \in S : m >= n

\* get_bounds: [[south, west], [north, east]] of everything on the map, the
\* empty tuple standing for folium's [[None, None], [None, None]].
GetBounds(map) ==
    LET pts == PointsOfSeq(map.children)
    IN  IF pts = {} THEN <<>>
        ELSE << << Min({p[1] : p \in pts}), Min({p[2] : p \in pts}) >>,
                << Max({p[1] : p \in pts}), Max({p[2] : p \in pts}) >> >>

\* ------------------------------------------------------------------- state

VARIABLES
    rcColors,        \* plt.rcParams['axes.prop_cycle'].by_key()["color"]
    pc,              \* position of the running call, "idle" between calls
    fn,              \* the function being run
    layer,           \* argument of plot_layer
    track_geometry,  \* argument of plot_tracks
    observations,    \* argument of plot_observations
    show_heatmap,    \* argument of plot_observations
    padding,         \* argument of plot_observations
    poly_map,        \* the map under construction, returned at "done"
    feature_groups,  \* local dict of overlay groups
    colors,          \* local: the colour cycle read at the call
    tracks,          \* local of plot_tracks: the exploded frame
    track_ids,       \* local of plot_tracks: the distinct track ids
    i,               \* rows (or tracks) consumed by the running loop
    obs_type,        \* local of the marker loop
    icon_fmt,        \* local of the marker loop
    error,           \* the exception that ended the call, or None
    prev             \* history: what the last call was given and drew, if kept

vars == << rcColors, pc, fn, layer, track_geometry, observations, show_heatmap,
           padding, poly_map, feature_groups, colors, tracks, track_ids, i,
           obs_type, icon_fmt, error, prev >>

\* The arguments and locals of the functions that are not running.
layerVars == << layer >>

obsVars == << observations, show_heatmap, padding, obs_type, icon_fmt >>

trackVars == << track_geometry, tracks, track_ids >>

NoFmt == [icon |-> None, color |-> None]

Init ==
    /\ rcColors = DefaultColors
    /\ pc = "idle"
    /\ fn = None
    /\ layer = <<>>
    /\ track_geometry = <<>>
    /\ colors = <<>>
    /\ tracks = <<>>
    /\ track_ids = <<>>
    /\ observations = <<>>
    /\ show_heatmap = None
    /\ padding = <<>>
    /\ poly_map = NewMap
    /\ feature_groups = <<>>
    /\ i = 0
    /\ obs_type = None
    /\ icon_fmt = NoFmt
    /\ error = None
    /\ prev = <<>>

\* ------------------------------------------------------- plot_observations

\* Faulty variant of StyleLookup: "community_work" is missing from the second test
\* and falls through to the default arm.
StyleLookupCommunityOnly(t) ==
    IF t = "animal" THEN [icon |-> "fa-paw", color |-> "orange"]
    ELSE IF t \in {"community"}
         THEN [icon |-> "fa-people-group", color |-> "darkblue"]
    ELSE IF t = "hwc" THEN [icon |-> "fa-triangle-exclamation", color |-> "red"]
    ELSE IF t = "poi" THEN [icon |-> "fa-leaf", color |-> "darkgreen"]
    ELSE [icon |-> None, color |-> "blue"]

\* The chain of conditionals that styles a row.
StyleLookup(t) ==
    IF t = "animal" THEN [icon |-> "fa-paw", color |-> "orange"]
    ELSE IF t \in {"community", "community_work"}
         THEN [icon |-> "fa-people-group", color |-> "darkblue"]
    ELSE IF t = "hwc" THEN [icon |-> "fa-triangle-exclamation", color |-> "red"]
    ELSE IF t = "poi" THEN [icon |-> "fa-leaf", color |-> "darkgreen"]
    ELSE [icon |-> None, color |-> "blue"]

\* Faulty variant of ObsFeatureGroups: the dict starts empty, the groups being left
\* to be made when a row needs them.
NoFeatureGroups == <<>>

\* Faulty variant of ObsFeatureGroups: "community_work" has no entry of its own, the
\* one group named Community being taken to serve both keys.
FeatureGroupsOneCommunity ==
    << [key |-> "community", value |-> FeatureGroup("Community")],
       [key |-> "animal", value |-> FeatureGroup("Animal sighting")],
       [key |-> "hwc", value |-> FeatureGroup("Human-wildlife-conflict")],
       [key |-> "poi", value |-> FeatureGroup("Point of interest")] >>

\* Faulty variant of ObsFeatureGroups: a sixth group takes the rows of the
\* type the style chain leaves to its default arm.
FeatureGroupsWithOther ==
    << [key |-> "community_work", value |-> FeatureGroup("Community")],
       [key |-> "community", value |-> FeatureGroup("Community")],
       [key |-> "animal", value |-> FeatureGroup("Animal sighting")],
       [key |-> "hwc", value |-> FeatureGroup("Human-wildlife-conflict")],
       [key |-> "poi", value |-> FeatureGroup("Point of interest")],
       [key |-> "unknown_type", value |-> FeatureGroup("Other")] >>

\* The dict of the five overlay groups, in the order the code writes it.
ObsFeatureGroups ==
    << [key |-> "community_work", value |-> FeatureGroup("Community")],
       [key |-> "community", value |-> FeatureGroup("Community")],
       [key |-> "animal", value |-> FeatureGroup("Animal sighting")],
       [key |-> "hwc", value |-> FeatureGroup("Human-wildlife-conflict")],
       [key |-> "poi", value |-> FeatureGroup("Point of interest")] >>

CallPlotObservations(o, h, p) ==
    /\ pc = "idle"
    /\ fn' = "plot_observations"
    /\ observations' = o
    /\ show_heatmap' = h
    /\ padding' = p
    /\ poly_map' = NewMap
    /\ feature_groups' = ObsFeatureGroups
    /\ i' = 0
    /\ pc' = "obs_loop"
    /\ UNCHANGED << prev, rcColors, layerVars, trackVars, colors, obs_type, icon_fmt, error >>

\* One pass of the marker loop: the row is styled, the marker is built,
\* and feature_groups[obs_type] is looked up to put it in.
ObsLoopStep ==
    /\ pc = "obs_loop"
    /\ i < Len(observations)
    /\ LET obs == observations[i + 1]
           t == obs.observationType
           fmt == StyleLookup(t)
           m == Marker(<<obs.geometry.y, obs.geometry.x>>, obs.conceptLabel, Icon(fmt))
       IN  /\ obs_type' = t
           /\ icon_fmt' = fmt
           /\ IF DictHas(feature_groups, t)
              THEN /\ feature_groups' = DictSet(feature_groups, t,
                                                AddTo(m, DictGet(feature_groups, t)))
                   /\ i' = i + 1
                   /\ UNCHANGED << pc, error >>
              ELSE /\ pc' = "raised"
                   /\ error' = "KeyError"
                   /\ UNCHANGED << feature_groups, i >>
    /\ UNCHANGED << prev, rcColors, fn, layerVars, trackVars, colors, observations,
                    show_heatmap, padding, poly_map >>

\* [geom.y, geom.x] of the rows of a type (of every row when t is None).
RECURSIVE LatLon(_, _)
LatLon(o, t) ==
    IF o = <<>> THEN <<>>
    ELSE LET rest == LatLon(Tail(o), t)
             g == Head(o).geometry
         IN  IF t = None \/ Head(o).observationType = t
             THEN << <<g.y, g.x>> >> \o rest
             ELSE rest

HwcGradient == << <<"0.4", "brown">>, <<"0.65", "orange">>, <<"1", "red">> >>

AnimalGradient == << <<"0.4", "blue">>, <<"0.65", "lime">>, <<"1", "green">> >>

\* Faulty variant of HeatmapLayers: the second mode is tested under the name the
\* docstring gives it, "hwc_only".
HeatmapLayersHwcOnly(o, h) ==
    IF h = "all" THEN << HeatMap(LatLon(o, None), "Heatmap", <<>>) >>
    ELSE IF h = "hwc_only"
         THEN << HeatMap(LatLon(o, "hwc"), "HWC heatmap", HwcGradient),
                 HeatMap(LatLon(o, "animal"), "Animal heatmap", AnimalGradient) >>
    ELSE <<>>

\* The density layers a mode adds to the map.
HeatmapLayers(o, h) ==
    IF h = "all" THEN << HeatMap(LatLon(o, None), "Heatmap", <<>>) >>
    ELSE IF h = "hwc_animal"
         THEN << HeatMap(LatLon(o, "hwc"), "HWC heatmap", HwcGradient),
                 HeatMap(LatLon(o, "animal"), "Animal heatmap", AnimalGradient) >>
    ELSE <<>>

ObsHeatmap ==
    /\ pc = "obs_loop"
    /\ i = Len(observations)
    /\ poly_map' = [poly_map EXCEPT
                      !.children = @ \o HeatmapLayers(observations, show_heatmap)]
    /\ pc' = "obs_groups"
    /\ UNCHANGED << prev, rcColors, fn, layerVars, trackVars, colors, obsVars,
                    feature_groups, i, error >>

ObsAddGroups ==
    /\ pc = "obs_groups"
    /\ poly_map' = [poly_map EXCEPT !.children = @ \o DictValues(feature_groups)]
    /\ pc' = "obs_popup"
    /\ UNCHANGED << prev, rcColors, fn, layerVars, trackVars, colors, obsVars,
                    feature_groups, i, error >>

\* Faulty variant of ObsPopup: the coordinate readout is added as soon as
\* the density layers are on the map, the overlay groups after it.
ObsPopupBeforeGroups ==
    /\ pc = "obs_groups"
    /\ poly_map' = [poly_map EXCEPT
                      !.children = Append(@, LatLngPopup) \o DictValues(feature_groups)]
    /\ pc' = "obs_fit"
    /\ UNCHANGED << prev, rcColors, fn, layerVars, trackVars, colors, obsVars,
                    feature_groups, i, error >>

ObsPopup ==
    /\ pc = "obs_popup"
    /\ poly_map' = AddTo(LatLngPopup, poly_map)
    /\ pc' = "obs_fit"
    /\ UNCHANGED << prev, rcColors, fn, layerVars, trackVars, colors, obsVars,
                    feature_groups, i, error >>

ObsFitBounds ==
    /\ pc = "obs_fit"
    /\ poly_map' = AddTo(FitBounds(GetBounds(poly_map), padding), poly_map)
    /\ pc' = "obs_control"
    /\ UNCHANGED << prev, rcColors, fn, layerVars, trackVars, colors, obsVars,
                    feature_groups, i, error >>

ObsLayerControl ==
    /\ pc = "obs_control"
    /\ poly_map' = AddTo(LayerControl(FALSE), poly_map)
    /\ pc' = "done"
    /\ UNCHANGED << prev, rcColors, fn, layerVars, trackVars, colors, obsVars,
                    feature_groups, i, error >>

\* ---------------------------------------------------------------- plot_layer

CallPlotLayer(l) ==
    /\ pc = "idle"
    /\ fn' = "plot_layer"
    /\ layer' = l
    /\ poly_map' = NewMap
    /\ colors' = rcColors
    /\ feature_groups' = <<>>
    /\ i' = 0
    /\ pc' = "layer_loop"
    /\ UNCHANGED << prev, rcColors, trackVars, obsVars, error >>

\* color_id = i % (len(colors) - 1), i being the index label of the row.
LayerColorId(label, cs) == label % (Len(cs) - 1)

\* layer[name_col].iloc[i]: the name at POSITION i, i being the index label
\* of the row; "IndexError" when the table has no such position.
LayerNameAt(l, label) ==
    IF label < Len(l) THEN l[label + 1].NAME ELSE "IndexError"

\* feature_groups[name] = FeatureGroup(name), and the geometry put into it.
LayerPut(fgs, name, geometry, color) ==
    DictSet(fgs, name, AddTo(GeoJson(geometry, color, name), FeatureGroup(name)))

\* One pass of the loop over layer[geometry_col].items().
LayerLoopStep ==
    /\ pc = "layer_loop"
    /\ i < Len(layer)
    /\ LET label == layer[i + 1].idx
           geometry == layer[i + 1].geometry
           color_id == LayerColorId(label, colors)
           name == LayerNameAt(layer, label)
       IN  IF name = "IndexError"
           THEN /\ pc' = "raised"
                /\ error' = "IndexError"
                /\ UNCHANGED << feature_groups, i >>
           ELSE /\ feature_groups' =
                      LayerPut(feature_groups, name, geometry, colors[color_id + 1])
                /\ i' = i + 1
                /\ UNCHANGED << pc, error >>
    /\ UNCHANGED << prev, rcColors, fn, layerVars, trackVars, obsVars, colors, poly_map >>

\* After the loop: the groups, the coordinate readout, the viewport and the
\* layer control are added, and the map is returned.
LayerFinish ==
    /\ pc = "layer_loop"
    /\ i = Len(layer)
    /\ LET m1 == [poly_map EXCEPT !.children = @ \o DictValues(feature_groups)]
           m2 == AddTo(LatLngPopup, m1)
           m3 == AddTo(FitBounds(GetBounds(m2), <<>>), m2)
       IN  poly_map' = AddTo(LayerControl(FALSE), m3)
    /\ pc' = "done"
    /\ UNCHANGED << prev, rcColors, fn, layerVars, trackVars, obsVars, colors,
                    feature_groups, i, error >>

\* --------------------------------------------------------------- plot_tracks

\* explode(index_parts=True), apply((point.y, point.x)) and
\* reset_index(level=0, names="track_id"): one row per point, keyed by the
\* index label of the row the point came from.
RECURSIVE Explode(_)
Explode(g) ==
    IF g = <<>> THEN <<>>
    ELSE LET row == Head(g)
         IN  [k \in 1..Len(row.geometry) |->
                 [track_id |-> row.idx,
                  geometry |-> <<row.geometry[k].y, row.geometry[k].x>>]]
             \o Explode(Tail(g))

\* Faulty variant of Unique: the column as it is, unique() forgotten.
UniqueNoDedupe(t) == [k \in 1..Len(t) |-> t[k].track_id]

\* tracks["track_id"].unique().tolist(): the ids in first-seen order.
RECURSIVE Unique(_)
Unique(t) ==
    IF t = <<>> THEN <<>>
    ELSE LET front == Unique(SubSeq(t, 1, Len(t) - 1))
             last == t[Len(t)].track_id
         IN  IF \E k \in 1..Len(front) : front[k] = last
             THEN front
             ELSE Append(front, last)

\* tracks.loc[tracks["track_id"] == track_id, "geometry"]
RECURSIVE TrackOf(_, _)
TrackOf(t, id) ==
    IF t = <<>> THEN <<>>
    ELSE IF Head(t).track_id = id
         THEN << Head(t).geometry >> \o TrackOf(Tail(t), id)
         ELSE TrackOf(Tail(t), id)

\* Faulty variant of TrackColorId: the whole cycle is used, i % len(colors).
TrackColorIdFullCycle(k, cs) == k % Len(cs)

\* Faulty variant of TrackColorId: i is the row of the exploded frame at which the
\* track starts, not the position of its id among the distinct ids.
TrackColorIdByRow(k, cs) ==
    LET first == CHOOSE r \in 1..Len(tracks) :
                    /\ tracks[r].track_id = track_ids[k + 1]
                    /\ \A q \in 1..(r - 1) : tracks[q].track_id # track_ids[k + 1]
    IN  (first - 1) % (Len(cs) - 1)

\* color_id = i % (len(colors) - 1), i being the position in track_ids.
TrackColorId(k, cs) == k % (Len(cs) - 1)

CallPlotTracks(g) ==
    /\ pc = "idle"
    /\ fn' = "plot_tracks"
    /\ track_geometry' = g
    /\ tracks' = Explode(g)
    /\ poly_map' = NewMap
    /\ colors' = rcColors
    /\ track_ids' = Unique(Explode(g))
    /\ i' = 0
    /\ pc' = "tracks_loop"
    /\ UNCHANGED << prev, rcColors, layerVars, obsVars, feature_groups, error >>

\* One pass of the loop over enumerate(track_ids): one line per track id.
TracksLoopStep ==
    /\ pc = "tracks_loop"
    /\ i < Len(track_ids)
    /\ LET track_id == track_ids[i + 1]
           track == TrackOf(tracks, track_id)
           color_id == TrackColorId(i, colors)
       IN  poly_map' = AddTo(PolyLine(track, colors[color_id + 1], 5, "0.8"), poly_map)
    /\ i' = i + 1
    /\ UNCHANGED << prev, rcColors, pc, fn, layerVars, trackVars, obsVars, colors,
                    feature_groups, error >>

\* After the loop: the coordinate readout and the viewport, and the map is
\* returned.
TracksFinish ==
    /\ pc = "tracks_loop"
    /\ i = Len(track_ids)
    /\ LET m1 == AddTo(LatLngPopup, poly_map)
       IN  poly_map' = AddTo(FitBounds(GetBounds(m1), <<>>), m1)
    /\ pc' = "done"
    /\ UNCHANGED << prev, rcColors, fn, layerVars, trackVars, obsVars, colors,
                    feature_groups, i, error >>

\* ------------------------------------------------------------ between calls

\* Code outside the plot functions sets matplotlib's colour cycle.
SetRcParams(p) ==
    /\ pc = "idle"
    /\ p # rcColors
    /\ rcColors' = p
    /\ UNCHANGED << prev, pc, fn, layerVars, trackVars, obsVars, poly_map,
                    feature_groups, colors, i, error >>

\* The call has returned or raised; its locals are gone.
Returned(recorded) ==
    /\ pc \in {"done", "raised"}
    /\ pc' = "idle"
    /\ fn' = None
    /\ layer' = <<>>
    /\ track_geometry' = <<>>
    /\ colors' = <<>>
    /\ tracks' = <<>>
    /\ track_ids' = <<>>
    /\ observations' = <<>>
    /\ show_heatmap' = None
    /\ padding' = <<>>
    /\ poly_map' = NewMap
    /\ feature_groups' = <<>>
    /\ i' = 0
    /\ obs_type' = None
    /\ icon_fmt' = NoFmt
    /\ error' = None
    /\ UNCHANGED rcColors
    /\ prev' = recorded

\* What a finished call of plot_layer or of plot_tracks was given and drew:
\* the identifiers in first-seen order (track ids, display names), the index
\* labels and names of a layer table, the colour cycle that was read, how the
\* call ended and the colour of what it drew for each identifier.
Summary ==
    [fn |-> fn,
     order |-> IF fn = "plot_tracks" THEN track_ids
               ELSE Unique([p \in 1..Len(layer) |-> [track_id |-> layer[p].NAME]]),
     table |-> [p \in 1..Len(layer) |-> <<layer[p].idx, layer[p].NAME>>],
     cycle |-> colors,
     outcome |-> pc,
     colours |-> IF fn = "plot_tracks"
                 THEN [k \in 1..Len(OfKind(poly_map, "PolyLine")) |->
                         <<track_ids[k], OfKind(poly_map, "PolyLine")[k].color>>]
                 ELSE [g \in 1..Len(OfKind(poly_map, "FeatureGroup")) |->
                         <<OfKind(poly_map, "FeatureGroup")[g].name,
                           OfKind(poly_map, "FeatureGroup")[g].children[1].color>>]]

\* The inputs of the call a repeating caller makes next: any input at first,
\* then the layer table of the call kept in prev, or any track series with
\* the first-seen ids of the call kept in prev.
RepeatLayerInputs ==
    IF prev = <<>> THEN LayerInputs
    ELSE IF prev[1].fn = "plot_layer"
         THEN { [p \in 1..Len(prev[1].table) |->
                   [idx |-> prev[1].table[p][1], geometry |-> LayerGeometry(p),
                    NAME |-> prev[1].table[p][2]]] }
         ELSE {}

RepeatTrackInputs ==
    IF prev = <<>> THEN TrackInputs
    ELSE IF prev[1].fn = "plot_tracks"
         THEN { g \in TrackInputs : Unique(Explode(g)) = prev[1].order }
         ELSE {}

\* A caller that makes one call after another.
Next ==
    \/ \E p \in Palettes : SetRcParams(p)
    \/ /\ pc = "idle"
       /\ \E l \in LayerInputs : CallPlotLayer(l)
    \/ LayerLoopStep
    \/ LayerFinish
    \/ /\ pc = "idle"
       /\ \E g \in TrackInputs : CallPlotTracks(g)
    \/ TracksLoopStep
    \/ TracksFinish
    \/ /\ pc = "idle"
       /\ \E o \in ObservationInputs, h \in HeatmapModes, p \in Paddings :
             CallPlotObservations(o, h, p)
    \/ ObsLoopStep
    \/ ObsHeatmap
    \/ ObsAddGroups
    \/ ObsPopup
    \/ ObsFitBounds
    \/ ObsLayerControl
    \/ Returned(prev)

Spec == Init /\ [][Next]_vars

\* A caller that repeats calls of plot_layer, or of plot_tracks, on inputs
\* with the same identifiers, the colour cycle being set at will in between.
NextRepeat ==
    \/ \E p \in Palettes : SetRcParams(p)
    \/ /\ pc = "idle"
       /\ \E l \in RepeatLayerInputs : CallPlotLayer(l)
    \/ LayerLoopStep
    \/ LayerFinish
    \/ /\ pc = "idle"
       /\ \E g \in RepeatTrackInputs : CallPlotTracks(g)
    \/ TracksLoopStep
    \/ TracksFinish
    \/ Returned(<< Summary >>)

SpecRepeat == Init /\ [][NextRepeat]_vars

\* ------------------------------------------------- reading the map and input

\* The markers inside the overlay groups that are on the map.
MarkersOnMap(map) ==
    LET gs == OfKind(map, "FeatureGroup")
    IN  UNION { { gs[g].children[k] : k \in 1..Len(gs[g].children) } : g \in 1..Len(gs) }

\* The number of rows of an observation collection that have a type.
CountType(o, t) == Cardinality({ k \in 1..Len(o) : o[k].observationType = t })

ObsTerminated == fn = "plot_observations" /\ pc \in {"done", "raised"}

ObsReturned == fn = "plot_observations" /\ pc = "done"

\* ----------------------------------------------------------------------- C1

\* The pairs as the specification words them.
StyleAsWorded(t) ==
    CASE t = "animal" -> [icon |-> "paw", color |-> "orange"]
      [] t \in {"community", "community_work"} ->
            [icon |-> "people-group", color |-> "dark blue"]
      [] t = "hwc" -> [icon |-> "triangle-exclamation", color |-> "red"]
      [] t = "poi" -> [icon |-> "leaf", color |-> "dark green"]
      [] OTHER -> [icon |-> None, color |-> "blue"]

\* The pairs with the identifiers the code hands to the icon: Font Awesome
\* names with their "fa-" prefix, colour names in one word.
StyleAsCoded(t) ==
    CASE t = "animal" -> [icon |-> "fa-paw", color |-> "orange"]
      [] t \in {"community", "community_work"} ->
            [icon |-> "fa-people-group", color |-> "darkblue"]
      [] t = "hwc" -> [icon |-> "fa-triangle-exclamation", color |-> "red"]
      [] t = "poi" -> [icon |-> "fa-leaf", color |-> "darkgreen"]
      [] OTHER -> [icon |-> None, color |-> "blue"]

\* C1 as stated: whenever plot_observations has styled a row, the style is
\* the pair the specification words for the row's observationType: (paw,
\* orange), (people-group, dark blue), (triangle-exclamation, red), (leaf,
\* dark green), and (no icon, blue) for any other value.
C1_StyleAsStated ==
    (fn = "plot_observations" /\ obs_type # None) => icon_fmt = StyleAsWorded(obs_type)

\* C1 amended: whenever plot_observations has styled a row, the style is the
\* fixed pair for the row's observationType with the identifiers "fa-paw",
\* "fa-people-group", "fa-triangle-exclamation", "fa-leaf" and the colours
\* "orange", "darkblue", "red", "darkgreen"; any other value gets (no icon,
\* "blue"); and every marker put into a group carries the style of its row.
C1_StyleLookupExact ==
    /\ (fn = "plot_observations" /\ obs_type # None) =>
          icon_fmt = StyleAsCoded(obs_type)
    /\ fn = "plot_observations" =>
          \A g \in 1..Len(feature_groups) :
             \A k \in 1..Len(feature_groups[g].value.children) :
                LET m == feature_groups[g].value.children[k]
                IN  /\ m.icon.icon = StyleAsCoded(feature_groups[g].key).icon
                    /\ m.icon.color = StyleAsCoded(feature_groups[g].key).color

\* A community_work row and an unrecognized row have both been styled in
\* one call.
C1_Witness ==
    /\ fn = "plot_observations"
    /\ obs_type = "unknown_type"
    /\ icon_fmt = [icon |-> None, color |-> "blue"]
    /\ Len(DictGet(feature_groups, "community_work").children) > 0

\* ----------------------------------------------------------------------- C2

\* The three rows of the specification's scenario.
ScenarioObservations ==
    << [observationType |-> "animal", conceptLabel |-> "Giraffe",
        geometry |-> [x |-> 0, y |-> 0]],
       [observationType |-> "hwc", conceptLabel |-> "Conflict",
        geometry |-> [x |-> 1, y |-> 1]],
       [observationType |-> "unknown_type", conceptLabel |-> "Mystery",
        geometry |-> [x |-> 2, y |-> 2]] >>

\* C2: a call of plot_observations ends by returning a map, never by
\* raising; the map holds, for every row whose observationType is not one of
\* the recognized values, a marker labeled with the row's conceptLabel and
\* styled (no icon, blue); for the scenario's three rows and mode
\* "hwc_animal" the map holds two density layers of one point each.
C2_UnknownTypeRendered ==
    ObsTerminated =>
       /\ pc = "done"
       /\ error = None
       /\ \A k \in 1..Len(observations) :
             observations[k].observationType \notin KnownTypes =>
                \E m \in MarkersOnMap(poly_map) :
                   /\ m.popup = observations[k].conceptLabel
                   /\ m.icon.icon = None
                   /\ m.icon.color = "blue"
       /\ (observations = ScenarioObservations /\ show_heatmap = "hwc_animal") =>
             LET hm == OfKind(poly_map, "HeatMap")
             IN  Len(hm) = 2 /\ Len(hm[1].data) = 1 /\ Len(hm[2].data) = 1

\* ----------------------------------------------------------------------- C3

\* The five known categories and the names of their overlay groups.
CategoryGroups ==
    << <<"community_work", "Community">>, <<"community", "Community">>,
       <<"animal", "Animal sighting">>, <<"hwc", "Human-wildlife-conflict">>,
       <<"poi", "Point of interest">> >>

\* The overlay groups on the map are five, one per known category, each
\* holding one marker per row of its category (none when it is absent).
FiveGroupsOn(map) ==
    LET gs == OfKind(map, "FeatureGroup")
    IN  /\ Len(gs) = 5
        /\ \A g \in 1..5 :
              /\ gs[g].name = CategoryGroups[g][2]
              /\ Len(gs[g].children) = CountType(observations, CategoryGroups[g][1])

\* C3: for every non-empty observation collection, the map plot_observations
\* returns holds exactly five overlay groups, one per known category,
\* whichever observationType values occur in the rows; the groups of absent
\* categories are there and empty.
C3_FiveOverlayGroups ==
    (ObsReturned /\ observations # <<>>) => FiveGroupsOn(poly_map)

\* plot_observations has returned a map for rows that are all of one
\* category: its group holds them, the four other groups are on the map too.
C3_Witness ==
    /\ ObsReturned
    /\ Len(observations) >= 2
    /\ \A k \in 1..Len(observations) : observations[k].observationType = "poi"
    /\ Len(OfKind(poly_map, "FeatureGroup")) = 5
    /\ OfKind(poly_map, "FeatureGroup")[1].children = <<>>
    /\ Len(OfKind(poly_map, "FeatureGroup")[5].children) = Len(observations)

\* ----------------------------------------------------------------------- C4

\* The density layers on the map are those the mode asks for.
DensityLayersOn(map) ==
    LET hm == OfKind(map, "HeatMap")
    IN  CASE show_heatmap = "all" ->
               Len(hm) = 1 /\ Len(hm[1].data) = Len(observations)
          [] show_heatmap = "hwc_animal" ->
               /\ Len(hm) = 2
               /\ hm[1].name = "HWC heatmap"
               /\ Len(hm[1].data) = CountType(observations, "hwc")
               /\ hm[2].name = "Animal heatmap"
               /\ Len(hm[2].data) = CountType(observations, "animal")
          [] OTHER -> Len(hm) = 0

\* Every point of a density layer is the (y, x) of a row of the type t (of
\* any row when t is None).
PointsFromRows(h, t) ==
    \A k \in 1..Len(h.data) :
       \E r \in 1..Len(observations) :
          /\ t = None \/ observations[r].observationType = t
          /\ h.data[k] = <<observations[r].geometry.y, observations[r].geometry.x>>

Lines == OfKind(poly_map, "PolyLine")

TracksReturned == fn = "plot_tracks" /\ pc = "done"

\* The distinct index labels of a track series.
DistinctIds(g) == { g[k].idx : k \in 1..Len(g) }

\* The (y, x) points of the rows of one track id, in the order of the series.
RECURSIVE PointsOfId(_, _)
PointsOfId(g, id) ==
    IF g = <<>> THEN <<>>
    ELSE (IF Head(g).idx = id
          THEN [k \in 1..Len(Head(g).geometry) |->
                   <<Head(g).geometry[k].y, Head(g).geometry[k].x>>]
          ELSE <<>>) \o PointsOfId(Tail(g), id)

\* C5 as stated: the map plot_tracks returns holds as many lines as the
\* tracks have disjoint parts in total, a part being a row of the series
\* (rows that share a track id are the parts of one track) or, read the
\* other way, a part that explode() separates.
C5_LinesEqualParts ==
    TracksReturned => (Len(Lines) = Len(track_geometry) \/ Len(Lines) = Len(tracks))

\* C5 amended: the map plot_tracks returns holds as many lines as there are
\* distinct track_id values, one line per track id, and the line of an id
\* runs through the points of all the parts of that id in input order.
C5_LinesEqualDistinctIds ==
    TracksReturned =>
       /\ Len(Lines) = Cardinality(DistinctIds(track_geometry))
       /\ \A id \in DistinctIds(track_geometry) :
             \E k \in 1..Len(Lines) :
                Lines[k].locations = PointsOfId(track_geometry, id)

\* plot_tracks has returned a map for T1 in two parts and T2 in one: two
\* lines for three parts.
C5_Witness ==
    /\ TracksReturned
    /\ Len(track_geometry) = 3
    /\ track_geometry[1].idx = "T1"
    /\ track_geometry[2].idx = "T1"
    /\ track_geometry[3].idx = "T2"
    /\ Len(Lines) = 2

\* ----------------------------------------------------------------------- C6

\* The ordinal of a track id: the number of distinct ids seen before it.
Ordinal(g, id) ==
    LET first == CHOOSE k \in 1..Len(g) :
                    g[k].idx = id /\ \A j \in 1..(k - 1) : g[j].idx # id
    IN  Cardinality({ g[j].idx : j \in 1..(first - 1) })

\* C6: the k-th line plot_tracks draws is the line of the track id of
\* ordinal k - 1 in first-seen order and has the colour at position
\* (ordinal mod (palette size - 1)) of the colour cycle; that position is
\* one of the cycle; the one line of a track id carries all its points, so
\* all that is drawn for an id has one colour; and two ids whose ordinals
\* differ by less than (palette size - 1) have different colours.
C6_TrackColours ==
    (fn = "plot_tracks" /\ pc \in {"tracks_loop", "done"}) =>
       /\ Len(Lines) = i
       /\ colors = rcColors
       /\ \A k \in 1..Len(Lines) :
             LET id == track_ids[k]
                 pos == Ordinal(track_geometry, id) % (Len(colors) - 1)
             IN  /\ Ordinal(track_geometry, id) = k - 1
                 /\ pos \in 0..(Len(colors) - 1)
                 /\ Lines[k].color = colors[pos + 1]
                 /\ Lines[k].locations = PointsOfId(track_geometry, id)
       /\ \A k1, k2 \in 1..Len(Lines) :
             (k1 < k2 /\ k2 - k1 < Len(colors) - 1) =>
                Lines[k1].color # Lines[k2].color

\* plot_tracks has drawn three tracks with a cycle of three colours: the
\* third line has the colour of the first, the second another one.
C6_Witness ==
    /\ TracksReturned
    /\ colors = ShortColors
    /\ Len(Lines) = 3
    /\ Lines[3].color = Lines[1].color
    /\ Lines[2].color # Lines[1].color

\* ----------------------------------------------------------------------- C7

LayerTerminated == fn = "plot_layer" /\ pc \in {"done", "raised"}

LayerReturned == fn = "plot_layer" /\ pc = "done"

Groups == OfKind(poly_map, "FeatureGroup")

\* The index labels of the table are pandas' default ones: 0, 1, 2, ...
RangeIndexed(l) == \A p \in 1..Len(l) : l[p].idx = p - 1

\* The last feature of each display name.
LastOfName(l, p) == \A q \in (p + 1)..Len(l) : l[q].NAME # l[p].NAME

\* The geometry of feature p is in the group of its own name, in the colour
\* of its ordinal.
InOwnGroup(l, p) ==
    \E g \in 1..Len(Groups) :
       /\ Groups[g].name = l[p].NAME
       /\ \E k \in 1..Len(Groups[g].children) :
             /\ Groups[g].children[k].data = l[p].geometry
             /\ Groups[g].children[k].color =
                   colors[((p - 1) % (Len(colors) - 1)) + 1]

\* C7: whatever the index labels of the table, a call of plot_layer ends by
\* returning a map on which the geometry of each feature (the last one of its
\* name, where names repeat) lies in the overlay group named by the display
\* name of that same feature, coloured by the feature's ordinal position
\* modulo (palette size - 1).
C7_LayerGeometryInOwnGroup ==
    LayerTerminated =>
       /\ pc = "done"
       /\ \A p \in 1..Len(layer) : LastOfName(layer, p) => InOwnGroup(layer, p)

\* What holds of the code: with the default index labels 0, 1, 2, ... the
\* call returns and every last-of-its-name feature is in its own group.
LayerGeometryInOwnGroupRangeIndexed ==
    (LayerTerminated /\ RangeIndexed(layer)) =>
       /\ pc = "done"
       /\ \A p \in 1..Len(layer) : LastOfName(layer, p) => InOwnGroup(layer, p)

\* ----------------------------------------------------------------------- C8

HasDuplicateNames(l) == \E p, q \in 1..Len(l) : p < q /\ l[p].NAME = l[q].NAME

\* One overlay per distinct name, holding only the geometry of the last
\* feature of that name; the geometries of the earlier ones are nowhere.
OverwrittenGroups(l) ==
    /\ Len(Groups) = Cardinality({ l[p].NAME : p \in 1..Len(l) })
    /\ \A g \in 1..Len(Groups) :
          /\ Len(Groups[g].children) = 1
          /\ \E p \in 1..Len(l) :
                /\ LastOfName(l, p)
                /\ l[p].NAME = Groups[g].name
                /\ Groups[g].children[1].data = l[p].geometry
    /\ \A p \in 1..Len(l) :
          ~LastOfName(l, p) =>
             \A g \in 1..Len(Groups) : \A k \in 1..Len(Groups[g].children) :
                Groups[g].children[k].data # l[p].geometry

\* C8: a call of plot_layer on a table in which several features share a
\* display name raises no error and returns a map with exactly one overlay
\* per distinct name; that overlay holds only the geometry of the last
\* feature of the name, and the geometries of the earlier features of the
\* name are nowhere on the map.
C8_DuplicateNamesOverwrite ==
    (LayerTerminated /\ HasDuplicateNames(layer)) =>
       (pc = "done" /\ error = None /\ OverwrittenGroups(layer))

\* What holds of the code: the same, for tables with the default index
\* labels 0, 1, 2, ...
DuplicateNamesOverwriteRangeIndexed ==
    (LayerTerminated /\ HasDuplicateNames(layer) /\ RangeIndexed(layer)) =>
       (pc = "done" /\ error = None /\ OverwrittenGroups(layer))

\* ----------------------------------------------------------------------- C9

\* C9: a call of plot_observations on an empty collection never raises,
\* whatever the heatmap mode: every step of it can be taken up to the
\* return, and the map returned holds the five overlay groups, all empty,
\* and no marker.
C9_EmptyObservationsReturnMap ==
    (fn = "plot_observations" /\ observations = <<>>) =>
       /\ pc # "raised"
       /\ error = None
       /\ pc # "done" =>
             ENABLED (ObsHeatmap \/ ObsAddGroups \/ ObsPopup \/ ObsFitBounds
                      \/ ObsLayerControl)
       /\ pc = "done" =>
             /\ Len(OfKind(poly_map, "FeatureGroup")) = 5
             /\ \A g \in 1..Len(OfKind(poly_map, "FeatureGroup")) :
                   OfKind(poly_map, "FeatureGroup")[g].children = <<>>
             /\ MarkersOnMap(poly_map) = {}

\* plot_observations has returned a map for an empty collection in mode
\* "hwc_animal": two density layers without points, five empty groups.
C9_Witness ==
    /\ ObsReturned
    /\ observations = <<>>
    /\ show_heatmap = "hwc_animal"
    /\ Len(OfKind(poly_map, "HeatMap")) = 2
    /\ Len(OfKind(poly_map, "FeatureGroup")) = 5

\* ---------------------------------------------------------------------- C10

PlotTerminated == fn \in {"plot_layer", "plot_tracks"} /\ pc \in {"done", "raised"}

\* While a call runs, the collection it was given stays as it was given.
InputUntouched ==
    (pc # "idle" /\ pc' # "idle") =>
       (layer' = layer /\ track_geometry' = track_geometry)

\* The call that has just ended and the call kept in prev ended the same way
\* and drew every identifier in the same colour.
SameColoursAsPrev ==
    /\ prev[1].outcome = Summary.outcome
    /\ prev[1].colours = Summary.colours

\* C10 as stated: when a call of plot_tracks (or plot_layer) ends and an
\* earlier call of the same function had the same first-seen ordering of
\* identifiers, both assign the same colour to every identifier, whatever
\* happened to state outside the arguments in between; and a running call
\* leaves its input collection unchanged.
C10_ColoursFromArgumentsAlone ==
    /\ [](( /\ PlotTerminated
            /\ prev # <<>>
            /\ prev[1].fn = fn
            /\ prev[1].order = Summary.order ) => SameColoursAsPrev)
    /\ [][InputUntouched]_vars

\* C10 amended: when a call of plot_tracks (or plot_layer) ends and an
\* earlier call of the same function had the same first-seen ordering of
\* identifiers (for plot_layer: the same index labels and display names, row
\* by row) and read the same colour cycle from the plotting library's
\* rcParams, both end the same way and assign the same colour to every
\* identifier; and a running call leaves its input collection unchanged.
C10_ColoursFromArgumentsAndCycle ==
    /\ [](( /\ PlotTerminated
            /\ prev # <<>>
            /\ prev[1].fn = fn
            /\ prev[1].order = Summary.order
            /\ fn = "plot_layer" => prev[1].table = Summary.table
            /\ prev[1].cycle = Summary.cycle ) => SameColoursAsPrev)
    /\ [][InputUntouched]_vars

\* A second call of plot_tracks has ended, on two or more track ids in the
\* order of the call before it and under the same colour cycle, the cycle
\* not being the one the program starts with.
C10_Witness ==
    /\ TracksReturned
    /\ prev # <<>>
    /\ prev[1].fn = "plot_tracks"
    /\ prev[1].order = track_ids
    /\ Len(track_ids) >= 2
    /\ prev[1].cycle = colors
    /\ colors = ShortColors
    /\ prev[1].colours = Summary.colours

\* ---------------------------------------------------------------------- C11

\* The rows of a collection whose observationType is no key of the dict.
UnknownRows(o) == { k \in 1..Len(o) : o[k].observationType \notin KnownTypes }

\* Nothing has been added to the map: no density layer, no overlay group,
\* no control.
NothingOnMap == poly_map.children = <<>>

\* The states of a call of plot_observations on a collection with a row of
\* an unknown type: the loop is at or before the first such row, or has
\* raised KeyError there, and the map is bare.
StopsAtFirstUnknown ==
    (fn = "plot_observations" /\ UnknownRows(observations) # {}) =>
       /\ pc \in {"obs_loop", "raised"}
       /\ i < Min(UnknownRows(observations))
       /\ NothingOnMap
       /\ (pc = "obs_loop" /\ i + 1 = Min(UnknownRows(observations))) =>
             ENABLED (ObsLoopStep /\ pc' = "raised")
       /\ pc = "raised" =>
             /\ error = "KeyError"
             /\ i + 1 = Min(UnknownRows(observations))
             /\ ~ ENABLED ObsLoopStep
             /\ ~ ENABLED ObsHeatmap
             /\ ~ ENABLED ObsAddGroups
             /\ ~ ENABLED ObsPopup
             /\ ~ ENABLED ObsFitBounds
             /\ ~ ENABLED ObsLayerControl

\* A call of plot_observations raises only at a row of an unknown type.
RaisesOnlyAtUnknown ==
    (fn = "plot_observations" /\ pc = "raised") => UnknownRows(observations) # {}

\* The step that follows the failure leaves the call: nothing is added to
\* the map and no map comes out of the call.
RaisedLeavesNoMap ==
    (fn = "plot_observations" /\ pc = "raised") =>
       (pc' = "idle" /\ poly_map' = NewMap /\ feature_groups' = <<>>)

\* C11: when a row's observationType is outside the five overlay-group
\* keys, plot_observations raises a lookup failure (KeyError) at the first
\* such row and returns no map: the rows processed before it leave the map
\* bare, and after the failure no density layer, overlay group or control is
\* added, the only step left being the one that leaves the call.
C11_UnknownTypeRaisesNoMap ==
    /\ [](StopsAtFirstUnknown /\ RaisesOnlyAtUnknown)
    /\ [][RaisedLeavesNoMap]_vars

\* plot_observations has raised at its third row in mode "all", two rows of
\* known types having had their markers put into their groups before it.
C11_Witness ==
    /\ fn = "plot_observations"
    /\ pc = "raised"
    /\ error = "KeyError"
    /\ show_heatmap = "all"
    /\ i = 2
    /\ Len(observations) = 3
    /\ \E g \in 1..Len(feature_groups) : feature_groups[g].value.children # <<>>
    /\ NothingOnMap

\* ---------------------------------------------------------------------- C12

\* The labels and locations (latitude = y, longitude = x) of the rows of a
\* type among the first n rows, in row order.
RECURSIVE LabelledPoints(_, _, _)
LabelledPoints(o, n, t) ==
    IF n = 0 THEN <<>>
    ELSE LET rest == LabelledPoints(o, n - 1, t)
         IN  IF o[n].observationType = t
             THEN Append(rest, [popup |-> o[n].conceptLabel,
                                location |-> <<o[n].geometry.y, o[n].geometry.x>>])
             ELSE rest

\* The labels and locations of the markers of a group.
MarkersOf(group) ==
    [k \in 1..Len(group.children) |->
       [popup |-> group.children[k].popup, location |-> group.children[k].location]]

AllKnown(o) == \A k \in 1..Len(o) : o[k].observationType \in KnownTypes

\* C12: for every observation collection whose rows all have one of the
\* five known observationType values, plot_observations has placed, after
\* i rows, exactly one marker per row, labeled with the row's conceptLabel
\* at (latitude = y, longitude = x), in the group keyed by the row's own
\* observationType, "community" and "community_work" being two groups; on
\* the map returned the five groups hold these markers, as many in a group
\* as there are rows of its type.
C12_OneMarkerPerRowInOwnGroup ==
    (fn = "plot_observations" /\ AllKnown(observations)) =>
       /\ pc # "raised"
       /\ DictKeys(feature_groups) = KnownTypes
       /\ Len(feature_groups) = 5
       /\ \A g \in 1..Len(feature_groups) :
             MarkersOf(feature_groups[g].value) =
                LabelledPoints(observations, i, feature_groups[g].key)
       /\ pc = "done" =>
             /\ i = Len(observations)
             /\ OfKind(poly_map, "FeatureGroup") = DictValues(feature_groups)
             /\ \A g \in 1..5 :
                   Len(OfKind(poly_map, "FeatureGroup")[g].children) =
                      CountType(observations, CategoryGroups[g][1])

\* plot_observations has returned a map for a community row, a
\* community_work row and a second community row, at points whose x and y
\* differ: two markers in one group named Community, one in the other.
C12_Witness ==
    /\ ObsReturned
    /\ Len(observations) = 3
    /\ CountType(observations, "community") = 2
    /\ CountType(observations, "community_work") = 1
    /\ \A k \in 1..3 : observations[k].geometry.x # observations[k].geometry.y
    /\ Len(OfKind(poly_map, "FeatureGroup")[1].children) = 1
    /\ Len(OfKind(poly_map, "FeatureGroup")[2].children) = 2
    /\ OfKind(poly_map, "FeatureGroup")[2].children[1].location = <<4, 3>>

\* ---------------------------------------------------------------------- C13

\* The place of an element in the order of construction: content (density
\* layers and overlay groups), then the coordinate readout, then the fit of
\* the viewport, then the layer-visibility control.
StepRank(el) ==
    CASE el.kind \in {"HeatMap", "FeatureGroup"} -> 1
      [] el.kind = "LatLngPopup" -> 2
      [] el.kind = "FitBounds" -> 3
      [] el.kind = "LayerControl" -> 4
      [] OTHER -> 0

\* The content of the map: its density layers and overlay groups.
ContentOf(map) ==
    [children |-> SelectSeq(map.children, LAMBDA el : StepRank(el) = 1)]

\* The number of markers in the overlay groups that are on the map.
RECURSIVE MarkerCount(_)
MarkerCount(gs) ==
    IF gs = <<>> THEN 0 ELSE Len(Head(gs).children) + MarkerCount(Tail(gs))

\* All the content is on the map: the density layers of the mode, the five
\* overlay groups, and in them one marker per row.
ContentComplete ==
    /\ DensityLayersOn(poly_map)
    /\ Len(OfKind(poly_map, "FeatureGroup")) = 5
    /\ OfKind(poly_map, "FeatureGroup") = DictValues(feature_groups)
    /\ MarkerCount(OfKind(poly_map, "FeatureGroup")) = Len(observations)

IsPrefix(s, t) == Len(s) <= Len(t) /\ SubSeq(t, 1, Len(s)) = s

\* What is on the map of a running call of plot_observations is in the
\* order of construction, each control at most once.
StepsInOrder ==
    fn = "plot_observations" =>
       LET ch == poly_map.children
           popups == OfKind(poly_map, "LatLngPopup")
           fits == OfKind(poly_map, "FitBounds")
           controls == OfKind(poly_map, "LayerControl")
       IN  /\ \A a, b \in 1..Len(ch) : a < b => StepRank(ch[a]) <= StepRank(ch[b])
           /\ \A a \in 1..Len(ch) : StepRank(ch[a]) > 0
           /\ Len(popups) <= 1 /\ Len(fits) <= 1 /\ Len(controls) <= 1
           /\ popups # <<>> => ContentComplete
           /\ fits # <<>> =>
                 /\ popups # <<>>
                 /\ fits[1].padding = padding
                 /\ fits[1].bounds = GetBounds(ContentOf(poly_map))
           /\ controls # <<>> =>
                 /\ fits # <<>>
                 /\ controls[1].collapsed = FALSE
                 /\ ch[Len(ch)] = controls[1]
                 /\ pc = "done"
           /\ pc = "done" => Len(controls) = 1

\* A step of a running call never takes anything off the map nor puts
\* anything before what is on it.
MapOnlyGrows ==
    (fn = "plot_observations" /\ fn' = fn) =>
       IsPrefix(poly_map.children, poly_map'.children)

\* C13: in plot_observations the construction steps happen in a fixed
\* order: every marker is placed and every density layer and all five
\* overlay groups are on the map before the coordinate-readout control is
\* added; the viewport is fitted, with the padding given (none by default),
\* to the bounds of that content only after all of it is on the map; the
\* layer-visibility control, expanded, is added last and exactly once.
C13_ConstructionOrder ==
    /\ []StepsInOrder
    /\ [][MapOnlyGrows]_vars

\* plot_observations has returned a map in mode "hwc_animal" with a padding
\* for three rows: two density layers, five groups, the readout, the fit
\* with the padding and the expanded control, ten elements in that order.
C13_Witness ==
    /\ ObsReturned
    /\ show_heatmap = "hwc_animal"
    /\ padding = <<10, 10>>
    /\ Len(observations) = 3
    /\ Len(poly_map.children) = 10
    /\ poly_map.children[8] = LatLngPopup
    /\ poly_map.children[9].kind = "FitBounds"
    /\ poly_map.children[9].padding = <<10, 10>>
    /\ poly_map.children[9].bounds # <<>>
    /\ poly_map.children[10] = LayerControl(FALSE)

====
